---- MODULE Spec2Model ----
(***************************************************************************)
(* A model of axum-inertia: the Inertia extractor (src/src/lib.rs), its    *)
(* renderer, and the vite builders that provision the shared Inertia       *)
(* state (src/src/vite.rs).                                                *)
(*                                                                         *)
(* The modules `request`, `response` and `page` that lib.rs declares       *)
(* (lib.rs:55-57) are not among the source files; the request classifier   *)
(* and the conversion of a Response into an HTTP response are modelled     *)
(* from spec.md sections 4.1 and 4.3 and are marked as such below.         *)
(***************************************************************************)
EXTENDS Integers, Sequences, FiniteSets, TLC

VARIABLES
    development, \* Option<Development>: the builder of the development configuration
    fs,          \* Option<bytes>: content of the manifest file, None when it cannot be read
    main,        \* the `main` argument given to Production::new
    production,  \* Option<Result<Production>>: None until Production::new has run
    state,       \* Option<Inertia>: the router state (with_state), None before provisioning
    slots        \* the request flows in flight, one record per slot

vars == <<development, fs, main, production, state, slots>>

(***************************************************************************)
(* Option<T> is a sequence of length at most one.                          *)
(***************************************************************************)
None == <<>>
Some(x) == <<x>>
IsSome(o) == Len(o) = 1
IsNone(o) == Len(o) = 0
Unwrap(o) == o[1]

(***************************************************************************)
(* Bounds.                                                                 *)
(***************************************************************************)
\* number of request flows handled concurrently
NumSlots == 2
\* number of members (chunks) a manifest file holds at most
MaxManifestLen == 2

Slots == 1..NumSlots

(***************************************************************************)
(* HTTP status codes (http::StatusCode).                                   *)
(***************************************************************************)
StatusOk == 200
StatusConflict == 409

(***************************************************************************)
(* The manifest file.  Its content is the text of a JSON object; the       *)
(* model keeps it as the sequence of the object's members ("chunks").      *)
(* A chunk is a well-formed member `"key": {"file": .., "css": ..}`, a     *)
(* member whose entry lacks the required `file` field, text that is not    *)
(* JSON, or a byte that is not UTF-8.                                      *)
(***************************************************************************)
MainKeys == {"src/main.ts", "src/other.ts"}

EntryChunks ==
    [kind : {"entry"}, key : MainKeys, file : {Some("assets/main.js"), None},
     css : {None, Some(<<"assets/main.css">>)}]

BadUtf8 == [kind |-> "bad_utf8", key |-> "", file |-> None, css |-> None]
BadJson == [kind |-> "bad_json", key |-> "", file |-> None, css |-> None]

Chunks == EntryChunks \cup {BadUtf8, BadJson}

RECURSIVE SeqsUpTo(_, _)
SeqsUpTo(S, n) ==
    IF n = 0 THEN {<<>>}
    ELSE LET shorter == SeqsUpTo(S, n - 1)
         IN shorter \cup {Append(s, x) : s \in {t \in shorter : Len(t) = n - 1}, x \in S}

ManifestBytes == SeqsUpTo(Chunks, MaxManifestLen)

\* the text of one chunk, as it stands in the file
OptText(o) == IF IsSome(o) THEN Unwrap(o) ELSE "-"
CssText(o) == IF IsSome(o) THEN Unwrap(o)[1] ELSE "-"
ChunkText(c) ==
    CASE c.kind = "bad_utf8" -> "\\xff"
      [] c.kind = "bad_json" -> "{{"
      [] OTHER -> c.key \o ":" \o OptText(c.file) \o ":" \o CssText(c.css) \o ","

RECURSIVE FileText(_)
FileText(bytes) ==
    IF bytes = <<>> THEN "" ELSE ChunkText(Head(bytes)) \o FileText(Tail(bytes))

(***************************************************************************)
(* Result<T, E>: ok, the value when ok, the error when not.                *)
(***************************************************************************)
Ok(v) == [ok |-> TRUE, val |-> Some(v), err |-> None]
Err(e) == [ok |-> FALSE, val |-> None, err |-> Some(e)]

(***************************************************************************)
(* vite.rs                                                                 *)
(***************************************************************************)
\* std::fs::read: the bytes of the file, or an I/O error
fs_read(file) == IF IsSome(file) THEN Ok(Unwrap(file)) ELSE Err("io")

\* String::from_utf8: fails on any byte sequence that is not UTF-8
String_from_utf8(bytes) ==
    IF \E i \in 1..Len(bytes) : bytes[i].kind = "bad_utf8"
    THEN Err("utf8")
    ELSE Ok(bytes)

\* the index of the last member of `text` with the key `k` (0 when there is none)
LastIndexOf(text, k) ==
    LET idx == {i \in 1..Len(text) : text[i].key = k}
    IN IF idx = {} THEN 0 ELSE CHOOSE i \in idx : \A j \in idx : j <= i

\* serde_json::from_str::<HashMap<String, ManifestEntry>>: fails on text that
\* is not JSON and on an entry without the `file` field; a repeated key keeps
\* the member read last
serde_json_from_str(text) ==
    IF \E i \in 1..Len(text) : text[i].kind # "entry" \/ IsNone(text[i].file)
    THEN Err("json")
    ELSE Ok([k \in {text[i].key : i \in 1..Len(text)} |->
                [file |-> Unwrap(text[LastIndexOf(text, k)].file),
                 css |-> text[LastIndexOf(text, k)].css]])

\* hex::encode(Sha1::digest(bytes)): a digest of the raw bytes of the file
Sha1Hex(bytes) == "sha1:" \o FileText(bytes)

RECURSIVE CssLinks(_)
CssLinks(sources) ==
    IF sources = <<>> THEN ""
    ELSE "<link rel=stylesheet href=/" \o Head(sources) \o "/>" \o CssLinks(Tail(sources))

\* Production::new with a missing manifest entry replaced by a default one
Production_new_DefaultEntry(file, m) ==
    LET read == fs_read(file) IN
    IF ~read.ok THEN Err(Unwrap(read.err)) ELSE
    LET bytes == Unwrap(read.val)
        text == String_from_utf8(bytes) IN
    IF ~text.ok THEN Err(Unwrap(text.err)) ELSE
    LET manifest == serde_json_from_str(Unwrap(text.val)) IN
    IF ~manifest.ok THEN Err(Unwrap(manifest.err)) ELSE
    Ok([main |-> "/" \o m, css |-> None, title |-> "Vite", lang |-> "en",
        version |-> Sha1Hex(bytes)])

Production_new(file, m) ==
    LET read == fs_read(file) IN
    IF ~read.ok THEN Err(Unwrap(read.err)) ELSE
    LET bytes == Unwrap(read.val)
        text == String_from_utf8(bytes) IN
    IF ~text.ok THEN Err(Unwrap(text.err)) ELSE
    LET manifest == serde_json_from_str(Unwrap(text.val)) IN
    IF ~manifest.ok THEN Err(Unwrap(manifest.err)) ELSE
    LET entries == Unwrap(manifest.val) IN
    IF m \notin DOMAIN entries THEN Err("entry_missing") ELSE
    LET entry == entries[m]
        css == IF IsSome(entry.css) THEN Some(CssLinks(Unwrap(entry.css))) ELSE None
    IN Ok([main |-> "/" \o entry.file, css |-> css, title |-> "Vite", lang |-> "en",
           version |-> Sha1Hex(bytes)])

\* Production::lang and Production::title
Production_lang(p, lang) == [p EXCEPT !.lang = lang]
Production_title(p, title) == [p EXCEPT !.title = title]

\* Inertia::new
Inertia_new(version, layout) ==
    [request |-> None, version |-> version, layout |-> layout]

\* the closure `layout` is kept as the values it captures
Production_into_inertia(p) ==
    Inertia_new(Some(p.version),
                [kind |-> "production", scripts |-> <<p.main>>, css |-> p.css,
                 lang |-> p.lang, title |-> p.title])

Development_default ==
    [port |-> "5173", main |-> "src/main.ts", lang |-> "en", title |-> "Vite"]

\* Development::port, ::main, ::lang and ::title
Development_port(d, port) == [d EXCEPT !.port = port]
Development_main(d, m) == [d EXCEPT !.main = m]
Development_lang(d, lang) == [d EXCEPT !.lang = lang]
Development_title(d, title) == [d EXCEPT !.title = title]

Development_into_inertia(d) ==
    Inertia_new(None,
                [kind |-> "development",
                 scripts |-> <<"http://localhost:" \o d.port \o "/@vite/client",
                               "http://localhost:" \o d.port \o "/" \o d.main>>,
                 css |-> None, lang |-> d.lang, title |-> d.title])

\* the layout closure of the tests of lib.rs
TestLayout ==
    [kind |-> "test", scripts |-> <<>>, css |-> None, lang |-> "", title |-> ""]

\* calling the layout closure on the serialized page
ApplyLayout(layout, props) ==
    [lang |-> layout.lang, title |-> layout.title, scripts |-> layout.scripts,
     pre_escaped |-> IF IsSome(layout.css) THEN Unwrap(layout.css) ELSE "",
     data_page |-> props]

(***************************************************************************)
(* Requests.  The parts of a request the extractor reads: the method, the  *)
(* uri (path and optional query) and the two protocol headers.             *)
(***************************************************************************)
Methods == {"GET", "POST"}
Uris == {[path |-> "/test", query |-> None], [path |-> "/test", query |-> Some("page=2")]}
MarkerValues == {None, Some("true"), Some("false")}

\* the manifest deployed with the application in the production configuration
DeployedManifest ==
    <<[kind |-> "entry", key |-> "src/main.ts", file |-> Some("assets/main.js"),
       css |-> Some(<<"assets/main.css">>)]>>

ClientVersions == {None, Some("123"), Some(Sha1Hex(DeployedManifest))}

PartsSet ==
    [method : Methods, uri : Uris,
     headers : [x_inertia : MarkerValues, x_inertia_version : ClientVersions]]

Component == "foo!"
\* the props a handler renders: a JSON value, or a value whose Serialize
\* implementation returns an error
PropsSet == {[serializable |-> TRUE, json |-> "{bar:baz}"],
             [serializable |-> FALSE, json |-> ""]}

\* the values given to the builders' setters
Ports == {"5173", "3000"}
Langs == {"en", "tr"}
Titles == {"Vite", "My app"}

\* serde_json::to_value
serde_json_to_value(props) ==
    IF props.serializable THEN Ok(props.json) ELSE Err("cannot serialize")

\* Uri::path
uri_path(uri) == uri.path

\* the path and query of the uri, as received
uri_path_and_query(uri) ==
    IF IsSome(uri.query) THEN uri.path \o "?" \o Unwrap(uri.query) ELSE uri.path

(***************************************************************************)
(* request.rs (modelled from spec.md 4.1): the Classified Request.  It has *)
(* no failure mode, so the `?` of lib.rs:79 never returns.                 *)
(***************************************************************************)
Request_from_request_parts(parts) ==
    [is_xhr |-> parts.headers.x_inertia = Some("true"),
     version |-> parts.headers.x_inertia_version,
     url |-> uri_path_and_query(parts.uri)]

(***************************************************************************)
(* lib.rs                                                                  *)
(***************************************************************************)
\* the condition without the check that the server holds a version
VersionConflict_NoIsSome(parts, request, inertia) ==
    /\ parts.method = "GET"
    /\ request.is_xhr
    /\ request.version # inertia.version

\* the condition without the check of the method
VersionConflict_AnyMethod(parts, request, inertia) ==
    /\ request.is_xhr
    /\ IsSome(inertia.version)
    /\ request.version # inertia.version

\* the condition without the check of the marker header
VersionConflict_NoXhr(parts, request, inertia) ==
    /\ parts.method = "GET"
    /\ IsSome(inertia.version)
    /\ request.version # inertia.version

\* the condition of lib.rs:84-87
VersionConflict(parts, request, inertia) ==
    /\ parts.method = "GET"
    /\ request.is_xhr
    /\ IsSome(inertia.version)
    /\ request.version # inertia.version

\* the rejection with the whole url (path and query) as its location
ConflictRejection_WithQuery(parts) ==
    [status |-> StatusConflict,
     headers |-> {<<"X-Inertia-Location", uri_path_and_query(parts.uri)>>}]

\* the rejection built at lib.rs:89-91
ConflictRejection(parts) ==
    [status |-> StatusConflict,
     headers |-> {<<"X-Inertia-Location", uri_path(parts.uri)>>}]

\* the extractor without the assignment of lib.rs:94
from_request_parts_NoAttach(parts, st) ==
    LET inertia == st
        request == Request_from_request_parts(parts)
    IN IF VersionConflict(parts, request, inertia)
       THEN Err(ConflictRejection(parts))
       ELSE Ok(inertia)

\* Inertia::from_request_parts: the extractor, on a clone of the router state
from_request_parts(parts, st) ==
    LET inertia == st
        request == Request_from_request_parts(parts)
    IN IF VersionConflict(parts, request, inertia)
       THEN Err(ConflictRejection(parts))
       ELSE Ok([inertia EXCEPT !.request = Some(request)])

\* the outcome of a call that may panic
Returned(v) == [panicked |-> FALSE, msg |-> None, val |-> Some(v)]
Panicked(m) == [panicked |-> TRUE, msg |-> Some(m), val |-> None]

\* render with the page's version taken from the request
render_ClientVersion(self, component, props) ==
    IF IsNone(self.request) THEN Panicked("no request set")
    ELSE LET request == Unwrap(self.request)
             value == serde_json_to_value(props)
         IN IF ~value.ok THEN Panicked("serialize")
            ELSE LET page == [component |-> component, props |-> Unwrap(value.val),
                              url |-> request.url, version |-> request.version]
                 IN Returned([page |-> page, request |-> request,
                              layout |-> self.layout, version |-> self.version])

\* render with the response's version taken from the request
render_ResponseClientVersion(self, component, props) ==
    IF IsNone(self.request) THEN Panicked("no request set")
    ELSE LET request == Unwrap(self.request)
             value == serde_json_to_value(props)
         IN IF ~value.ok THEN Panicked("serialize")
            ELSE LET page == [component |-> component, props |-> Unwrap(value.val),
                              url |-> request.url, version |-> self.version]
                 IN Returned([page |-> page, request |-> request,
                              layout |-> self.layout, version |-> request.version])

\* render with a default request in place of the missing one
render_DefaultRequest(self, component, props) ==
    LET request == IF IsSome(self.request) THEN Unwrap(self.request)
                   ELSE [is_xhr |-> FALSE, version |-> None, url |-> ""]
        value == serde_json_to_value(props)
    IN IF ~value.ok THEN Panicked("serialize")
       ELSE LET page == [component |-> component, props |-> Unwrap(value.val),
                         url |-> request.url, version |-> self.version]
            IN Returned([page |-> page, request |-> request,
                         layout |-> self.layout, version |-> self.version])

\* Inertia::render
render(self, component, props) ==
    IF IsNone(self.request) THEN Panicked("no request set")
    ELSE LET request == Unwrap(self.request)
             value == serde_json_to_value(props)
         IN IF ~value.ok THEN Panicked("serialize")
            ELSE LET page == [component |-> component, props |-> Unwrap(value.val),
                              url |-> request.url, version |-> self.version]
                 IN Returned([page |-> page, request |-> request,
                              layout |-> self.layout, version |-> self.version])

(***************************************************************************)
(* response.rs (modelled from spec.md 4.3 and 6): the HTTP response of a   *)
(* Response.                                                               *)
(***************************************************************************)
Response_into_response(resp) ==
    LET version_echo == IF IsSome(resp.version)
                        THEN {<<"X-Inertia-Version", Unwrap(resp.version)>>}
                        ELSE {}
    IN IF resp.request.is_xhr
       THEN [status |-> StatusOk,
             headers |-> version_echo \cup {<<"X-Inertia", "true">>,
                                            <<"Content-Type", "application/json">>},
             body |-> [kind |-> "StructuredPayload", content |-> resp.page]]
       ELSE [status |-> StatusOk,
             headers |-> version_echo \cup {<<"Content-Type", "text/html">>},
             body |-> [kind |-> "FullDocument",
                       content |-> ApplyLayout(resp.layout, resp.page)]]

(***************************************************************************)
(* The request flows.                                                      *)
(***************************************************************************)
IdleSlot ==
    [pc |-> "idle", parts |-> None, inertia |-> None, rejection |-> None,
     response |-> None, http |-> None, panic |-> None]

\* the handler's body: render, and the conversion of what it returns; a
\* panic unwinds the flow, which drops what it held and leaves the message
RunHandler(slot, inertia, props) ==
    LET r == render(inertia, Component, props)
    IN IF r.panicked
       THEN [IdleSlot EXCEPT !.pc = "panicked", !.panic = r.msg]
       ELSE [slot EXCEPT !.pc = "responded", !.response = r.val,
                         !.http = Some(Response_into_response(Unwrap(r.val)))]

\* the extractor attaching the request to the router state itself
FromRequestParts_WritesState(s) ==
    /\ IsSome(state)
    /\ slots[s].pc = "idle"
    /\ \E parts \in PartsSet :
         LET res == from_request_parts(parts, Unwrap(state))
         IN /\ slots' = [slots EXCEPT ![s] =
                  IF res.ok
                  THEN [@ EXCEPT !.pc = "extracted", !.parts = Some(parts),
                                 !.inertia = res.val]
                  ELSE [@ EXCEPT !.pc = "rejected", !.parts = Some(parts),
                                 !.rejection = res.err]]
            /\ state' = IF res.ok THEN res.val ELSE state
    /\ UNCHANGED <<development, fs, main, production>>

\* a request arrives at a route whose handler takes the Inertia extractor
FromRequestParts(s) ==
    /\ IsSome(state)
    /\ slots[s].pc = "idle"
    /\ \E parts \in PartsSet :
         LET res == from_request_parts(parts, Unwrap(state))
         IN slots' = [slots EXCEPT ![s] =
                IF res.ok
                THEN [@ EXCEPT !.pc = "extracted", !.parts = Some(parts),
                               !.inertia = res.val]
                ELSE [@ EXCEPT !.pc = "rejected", !.parts = Some(parts),
                               !.rejection = res.err]]
    /\ UNCHANGED <<development, fs, main, production, state>>

\* the handler runs with the Inertia the extractor returned
Handler(s) ==
    /\ slots[s].pc = "extracted"
    /\ \E props \in PropsSet :
         slots' = [slots EXCEPT ![s] = RunHandler(@, Unwrap(@.inertia), props)]
    /\ UNCHANGED <<development, fs, main, production, state>>

\* a handler calls render on the value Inertia::new returned (the router
\* state itself), to which no extractor attached a request
HandlerWithoutExtractor(s) ==
    /\ IsSome(state)
    /\ slots[s].pc = "idle"
    /\ \E props \in PropsSet :
         slots' = [slots EXCEPT ![s] = RunHandler(@, Unwrap(state), props)]
    /\ UNCHANGED <<development, fs, main, production, state>>

\* the flow ends: its request, page and outcome are dropped
Complete(s) ==
    /\ slots[s].pc \in {"rejected", "responded", "panicked"}
    /\ slots' = [slots EXCEPT ![s] = IdleSlot]
    /\ UNCHANGED <<development, fs, main, production, state>>

(***************************************************************************)
(* Provisioning of the router state.                                       *)
(***************************************************************************)
ProductionNew ==
    /\ IsNone(development)
    /\ IsNone(production)
    /\ production' = Some(Production_new(fs, main))
    /\ UNCHANGED <<development, fs, main, state, slots>>

\* Production::lang on the value Production::new returned
ProductionLang ==
    /\ IsSome(production)
    /\ Unwrap(production).ok
    /\ IsNone(state)
    /\ \E lang \in Langs :
         production' = Some(Ok(Production_lang(Unwrap(Unwrap(production).val), lang)))
    /\ UNCHANGED <<development, fs, main, state, slots>>

\* Production::title on the value Production::new returned
ProductionTitle ==
    /\ IsSome(production)
    /\ Unwrap(production).ok
    /\ IsNone(state)
    /\ \E title \in Titles :
         production' = Some(Ok(Production_title(Unwrap(Unwrap(production).val), title)))
    /\ UNCHANGED <<development, fs, main, state, slots>>

ProductionIntoInertia ==
    /\ IsSome(production)
    /\ Unwrap(production).ok
    /\ IsNone(state)
    /\ state' = Some(Production_into_inertia(Unwrap(Unwrap(production).val)))
    /\ UNCHANGED <<development, fs, main, production, slots>>

DevelopmentPort ==
    /\ IsSome(development)
    /\ IsNone(state)
    /\ \E port \in Ports : development' = Some(Development_port(Unwrap(development), port))
    /\ UNCHANGED <<fs, main, production, state, slots>>

DevelopmentMain ==
    /\ IsSome(development)
    /\ IsNone(state)
    /\ \E m \in MainKeys : development' = Some(Development_main(Unwrap(development), m))
    /\ UNCHANGED <<fs, main, production, state, slots>>

DevelopmentLang ==
    /\ IsSome(development)
    /\ IsNone(state)
    /\ \E lang \in Langs : development' = Some(Development_lang(Unwrap(development), lang))
    /\ UNCHANGED <<fs, main, production, state, slots>>

DevelopmentTitle ==
    /\ IsSome(development)
    /\ IsNone(state)
    /\ \E title \in Titles :
         development' = Some(Development_title(Unwrap(development), title))
    /\ UNCHANGED <<fs, main, production, state, slots>>

DevelopmentIntoInertia ==
    /\ IsSome(development)
    /\ IsNone(state)
    /\ state' = Some(Development_into_inertia(Unwrap(development)))
    /\ UNCHANGED <<development, fs, main, production, slots>>

(***************************************************************************)
(* Spec: the router serves requests with a state provisioned in one of     *)
(* three ways: vite::Development and vite::Production configured as in the *)
(* example of vite.rs:19-31, the latter on the deployed manifest, and      *)
(* Inertia::new(Some("123"), ..) as in the tests of lib.rs.                *)
(***************************************************************************)
ExampleDevelopment ==
    Development_title(
        Development_lang(
            Development_main(Development_port(Development_default, "5173"), "src/main.ts"),
            "en"),
        "My app")

ExampleProduction ==
    Production_title(
        Production_lang(Unwrap(Production_new(Some(DeployedManifest), "src/main.ts").val),
                        "en"),
        "My app")

ProvisionedStates ==
    {[development |-> Some(ExampleDevelopment), fs |-> None, production |-> None,
      state |-> Some(Development_into_inertia(ExampleDevelopment))],
     [development |-> None, fs |-> None, production |-> None,
      state |-> Some(Inertia_new(Some("123"), TestLayout))],
     [development |-> None, fs |-> Some(DeployedManifest),
      production |-> Some(Ok(ExampleProduction)),
      state |-> Some(Production_into_inertia(ExampleProduction))]}

Init ==
    /\ main = "src/main.ts"
    /\ \E p \in ProvisionedStates :
         /\ development = p.development
         /\ fs = p.fs
         /\ production = p.production
         /\ state = p.state
    /\ slots = [s \in Slots |-> IdleSlot]

Next ==
    \E s \in Slots :
        \/ FromRequestParts(s)
        \/ Handler(s)
        \/ HandlerWithoutExtractor(s)
        \/ Complete(s)

Spec == Init /\ [][Next]_vars

(***************************************************************************)
(* SpecVite: the provisioning of the router state.  Either the Development *)
(* builder is configured and turned into an Inertia, or Production::new is *)
(* applied to a manifest file within the bounds and, when it returned Ok,  *)
(* the Production is configured and turned into an Inertia.                *)
(***************************************************************************)
InitVite ==
    /\ \/ /\ development = Some(Development_default)
          /\ fs = None
       \/ /\ development = None
          /\ fs \in {None} \cup {Some(b) : b \in ManifestBytes}
    /\ main \in MainKeys
    /\ production = None
    /\ state = None
    /\ slots = [s \in Slots |-> IdleSlot]

NextVite ==
    \/ ProductionNew
    \/ ProductionLang
    \/ ProductionTitle
    \/ ProductionIntoInertia
    \/ DevelopmentPort
    \/ DevelopmentMain
    \/ DevelopmentLang
    \/ DevelopmentTitle
    \/ DevelopmentIntoInertia

SpecVite == InitVite /\ [][NextVite]_vars

(***************************************************************************)
(* Properties.                                                             *)
(***************************************************************************)
\* the version the router state holds (V) and the one the client of slot s sent (C)
RegistryVersion == Unwrap(state).version
ClientVersion(s) == Unwrap(slots[s].parts).headers.x_inertia_version
MarkerTrue(s) == Unwrap(slots[s].parts).headers.x_inertia = Some("true")
MarkerAbsent(s) == Unwrap(slots[s].parts).headers.x_inertia = None
Method(s) == Unwrap(slots[s].parts).method
\* the slots whose request went through the extractor
Extracted(s) == IsSome(slots[s].parts)
HeaderValues(headers, name) == {h[2] : h \in {g \in headers : g[1] = name}}

\* C1: a GET request with the marker header set is rejected with a conflict
\* if and only if the server holds a version V and the client's version C
\* differs from it (an absent C differs from every V; with no V there is
\* never a conflict).
C1_ConflictIffMismatch ==
    \A s \in Slots :
        (Extracted(s) /\ Method(s) = "GET" /\ MarkerTrue(s)) =>
            ((/\ slots[s].pc = "rejected"
              /\ IsSome(slots[s].rejection)
              /\ Unwrap(slots[s].rejection).status = StatusConflict)
             <=> (IsSome(RegistryVersion) /\ ClientVersion(s) # RegistryVersion))

\* a GET request with the marker and no client version is rejected
C1_Witness ==
    \E s \in Slots :
        /\ slots[s].pc = "rejected"
        /\ Method(s) = "GET" /\ MarkerTrue(s)
        /\ IsNone(ClientVersion(s))
        /\ IsSome(RegistryVersion)

\* C2: a request whose method is not GET and whose marker header is set is
\* never rejected, whatever C and V are; it proceeds to the handler.
C2_NonGetNeverConflicts ==
    \A s \in Slots :
        (Extracted(s) /\ Method(s) # "GET" /\ MarkerTrue(s)) =>
            /\ slots[s].pc # "rejected"
            /\ IsNone(slots[s].rejection)
            /\ IsSome(slots[s].inertia)

\* a POST with the marker and a stale version has been answered by the handler
C2_Witness ==
    \E s \in Slots :
        /\ slots[s].pc = "responded"
        /\ Extracted(s) /\ Method(s) = "POST" /\ MarkerTrue(s)
        /\ IsSome(RegistryVersion) /\ IsSome(ClientVersion(s))
        /\ ClientVersion(s) # RegistryVersion

\* C3: a request without the marker header is never rejected and is
\* answered with the full document and status 200, whatever its method, its
\* version header and the server's version; a request with the marker set
\* that is not rejected is answered with the structured payload.
C3_MarkerDecidesPayload ==
    \A s \in Slots :
        Extracted(s) =>
            /\ MarkerAbsent(s) =>
                 /\ slots[s].pc # "rejected"
                 /\ slots[s].pc = "responded" =>
                      /\ Unwrap(slots[s].http).status = StatusOk
                      /\ Unwrap(slots[s].http).body.kind = "FullDocument"
            /\ (MarkerTrue(s) /\ slots[s].pc = "responded") =>
                 /\ Unwrap(slots[s].http).status = StatusOk
                 /\ Unwrap(slots[s].http).body.kind = "StructuredPayload"

\* a GET without the marker and with a stale version got the full document
C3_Witness ==
    \E s \in Slots :
        /\ slots[s].pc = "responded"
        /\ Extracted(s) /\ MarkerAbsent(s) /\ Method(s) = "GET"
        /\ IsSome(RegistryVersion) /\ IsSome(ClientVersion(s))
        /\ ClientVersion(s) # RegistryVersion
        /\ Unwrap(slots[s].http).body.kind = "FullDocument"

\* C4: a conflict is answered with status 409 and exactly one header,
\* X-Inertia-Location, whose value is the path of the request.
C4_ConflictResponse ==
    \A s \in Slots :
        slots[s].pc = "rejected" =>
            /\ Unwrap(slots[s].rejection).status = StatusConflict
            /\ Unwrap(slots[s].rejection).headers =
                   {<<"X-Inertia-Location", Unwrap(slots[s].parts).uri.path>>}
            /\ Cardinality(Unwrap(slots[s].rejection).headers) = 1

\* a request whose uri has a query is rejected
C4_Witness ==
    \E s \in Slots :
        /\ slots[s].pc = "rejected"
        /\ IsSome(Unwrap(slots[s].parts).uri.query)

\* C5: the page render builds carries the version of the router state, and
\* so does the Response built with it.
C5_PageVersionIsRegistryVersion ==
    \A s \in Slots :
        IsSome(slots[s].response) =>
            /\ Unwrap(slots[s].response).page.version = RegistryVersion
            /\ IsSome(Unwrap(slots[s].response).page.version) <=> IsSome(RegistryVersion)
            /\ Unwrap(slots[s].response).version = Unwrap(slots[s].response).page.version

\* a page was built for a client whose version differs from the server's
C5_Witness ==
    \E s \in Slots :
        /\ IsSome(slots[s].response)
        /\ IsSome(RegistryVersion) /\ IsSome(ClientVersion(s))
        /\ ClientVersion(s) # RegistryVersion

\* C6: a status-200 response carries X-Inertia-Version if and only if the
\* server holds a version, with that version as its value; without one the
\* page's version is null.
C6_VersionEcho ==
    \A s \in Slots :
        (IsSome(slots[s].http) /\ Unwrap(slots[s].http).status = StatusOk) =>
            /\ HeaderValues(Unwrap(slots[s].http).headers, "X-Inertia-Version") =
                   (IF IsSome(RegistryVersion) THEN {Unwrap(RegistryVersion)} ELSE {})
            /\ IsNone(RegistryVersion) =>
                   /\ Unwrap(slots[s].http).body.kind = "StructuredPayload" =>
                          IsNone(Unwrap(slots[s].http).body.content.version)
                   /\ Unwrap(slots[s].http).body.kind = "FullDocument" =>
                          IsNone(Unwrap(slots[s].http).body.content.data_page.version)

\* with no server version, a client that sent a version got the structured payload
C6_Witness ==
    \E s \in Slots :
        /\ IsSome(slots[s].http)
        /\ IsNone(RegistryVersion)
        /\ IsSome(ClientVersion(s)) /\ MarkerTrue(s)
        /\ Unwrap(slots[s].http).body.kind = "StructuredPayload"

\* C7: render on an Inertia to which no request was attached panics with
\* "no request set" and produces no Response and no page.
C7_RenderWithoutRequestPanics ==
    [][\A s \in Slots :
         (slots[s].pc = "idle" /\ slots'[s].pc \notin {"idle", "extracted", "rejected"}) =>
             /\ slots'[s].pc = "panicked"
             /\ slots'[s].panic = Some("no request set")
             /\ IsNone(slots'[s].response)
             /\ IsNone(slots'[s].http)]_vars

\* a handler has called render on the router state's Inertia
C7_Witness ==
    \E s \in Slots :
        /\ slots[s].pc = "panicked"
        /\ slots[s].panic = Some("no request set")
        /\ IsNone(Unwrap(state).request)

\* C8: no request flow changes the router state: its version and layout
\* stay what they were at construction and its request slot stays empty.
C8_StateReadOnly ==
    /\ [](IsSome(state) /\ IsNone(Unwrap(state).request))
    /\ [][state' = state]_vars

\* two flows are in progress at once, one rejected and one answered
C8_Witness ==
    \E s, t \in Slots :
        /\ s # t
        /\ slots[s].pc = "rejected"
        /\ slots[t].pc = "responded"
        /\ IsSome(Unwrap(slots[t].inertia).request)

\* the conditions under which the manifest file is usable for `main`
ManifestReadable == IsSome(fs)
ManifestUtf8 == \A i \in 1..Len(Unwrap(fs)) : Unwrap(fs)[i] # BadUtf8
ManifestJson ==
    \A i \in 1..Len(Unwrap(fs)) : Unwrap(fs)[i] \in EntryChunks /\ IsSome(Unwrap(fs)[i].file)
ManifestHasMain == \E i \in 1..Len(Unwrap(fs)) : Unwrap(fs)[i].key = main

\* C9: Production::new returns Ok, with a version, exactly when the manifest
\* can be read, is UTF-8, is a valid manifest and holds an entry for `main`;
\* otherwise it returns an error and no Production and no router state exist.
C9_ProductionNewFailsAtStartup ==
    /\ (IsNone(production) /\ IsNone(development)) => IsNone(state)
    /\ IsSome(production) =>
         /\ Unwrap(production).ok <=>
                (ManifestReadable /\ ManifestUtf8 /\ ManifestJson /\ ManifestHasMain)
         /\ Unwrap(production).ok =>
                /\ IsNone(Unwrap(production).err)
                /\ Unwrap(Unwrap(production).val).version = Sha1Hex(Unwrap(fs))
                /\ IsSome(state) =>
                       Unwrap(state).version = Some(Sha1Hex(Unwrap(fs)))
         /\ ~Unwrap(production).ok =>
                /\ IsNone(Unwrap(production).val)
                /\ IsSome(Unwrap(production).err)
                /\ IsNone(state)

\* a well-formed manifest without an entry for `main` was refused
C9_Witness ==
    /\ IsSome(production)
    /\ Unwrap(production).err = Some("entry_missing")
    /\ ManifestReadable /\ Len(Unwrap(fs)) > 0

\* C10: the extractor either rejects the request, and then no handler runs
\* and no page is built for it, or returns an Inertia holding the Classified
\* Request of that request; render on an extracted Inertia never fails with
\* "no request set" (it panics only when the props do not serialize) and the
\* page's url is the url of the classified request.
C10_RejectOrAttach ==
    /\ [](\A s \in Slots :
            /\ slots[s].pc = "rejected" =>
                 /\ IsNone(slots[s].inertia)
                 /\ IsNone(slots[s].response)
                 /\ IsNone(slots[s].http)
                 /\ IsNone(slots[s].panic)
            /\ IsSome(slots[s].inertia) =>
                 /\ slots[s].pc \in {"extracted", "responded"}
                 /\ IsNone(slots[s].rejection)
                 /\ Unwrap(slots[s].inertia).request =
                        Some([is_xhr |-> MarkerTrue(s),
                              version |-> ClientVersion(s),
                              url |-> uri_path_and_query(Unwrap(slots[s].parts).uri)])
                 /\ slots[s].pc = "responded" =>
                        /\ Unwrap(slots[s].response).page.url =
                               Unwrap(Unwrap(slots[s].inertia).request).url
                        /\ Unwrap(slots[s].response).request =
                               Unwrap(Unwrap(slots[s].inertia).request))
    /\ [][\A s \in Slots :
            /\ slots[s].pc = "rejected" => slots'[s].pc \in {"rejected", "idle"}
            /\ (slots[s].pc = "extracted" /\ slots'[s].pc # "extracted") =>
                   \/ slots'[s].pc = "responded"
                   \/ /\ slots'[s].pc = "panicked"
                      /\ slots'[s].panic = Some("serialize")]_vars

\* an extracted request with a query in its uri has been rendered
C10_Witness ==
    \E s \in Slots :
        /\ slots[s].pc = "responded"
        /\ IsSome(slots[s].inertia)
        /\ IsSome(Unwrap(slots[s].parts).uri.query)
        /\ IsSome(slots[s].response)

====
